---- MODULE Spec2Model ----
(***************************************************************************)
(* A model of anysync: the submission resolver and fetch orchestrator of   *)
(* src/anysync.py (AnytaskSynchronizer), the selection filter, the task    *)
(* hierarchy normalisation (Anytask._load_tasks / _normalize / _parse) and *)
(* the raw data validator of src/anytask.py (_AnytaskParser).              *)
(*                                                                         *)
(* Python strings the code transforms (strip, str, os.path.join) are       *)
(* sequences of one-character strings; None is the record None and an      *)
(* optional value v is Some(v).                                            *)
(***************************************************************************)
EXTENDS Integers, Sequences, FiniteSets, TLC

VARIABLES
    \* ---- AnytaskSynchronizer (src/anysync.py) ----
    args,       \* the parsed command line: force, ask_link, remove_links
    links,      \* AnytaskConfig, section RB_LINKS: review id -> path
    forced,     \* AnytaskSynchronizer._forced
    dirs,       \* directories that exist below the course root
    pending,    \* the solution _sync_solution is about to re-enter itself for
    bulk,       \* per account: forced bulk checkouts invoked in this run
    last,       \* what the latest invocation of _sync_solution did
    \* ---- AnytaskSynchronizer._filter_solutions (src/anysync.py) ----
    fargs,      \* args.course, args.task, args.student: None or a list
    fsolutions, \* Anytask.solutions
    fresult,    \* what _filter_solutions yields, None before the call
    \* ---- the course data (src/anysync.py Anytask, src/anytask.py) ----
    raw,        \* item['tasks'] of the course's JSON: the raw task records
    built,      \* what Anytask.__init__ (_load_tasks, _parse) gave
    loaded,     \* what AnytaskDataProvider.load_course gave
    \* ---- AnytaskSynchronizer._is_updated (src/anysync.py) ----
    wcopy,      \* per destination: None, or what 'svn info --xml' gives there
    checked,    \* the latest call of _is_updated: its solution and result
    \* ---- AnytaskSynchronizer.synchronize, run after run (src/anysync.py) ----
    rsolutions, \* Anytask.solutions: the solutions in the order of the data
    todo,       \* the solutions the loop of synchronize has not reached yet
    runinfo,    \* which run it is, args.update, how far the run is, and
                \* what the run before it did
    resolved,   \* per solution the loop reached: what the run did with it
    \* ---- AnytaskConfig (src/anysync.py) ----
    mem,        \* self._config: the sections RB_LINKS and RELOCS in memory
    disk,       \* the same sections as the configuration file holds them
    cfgop       \* the latest operation on the stores and what it returned

syncVars == <<args, links, forced, dirs, pending, bulk, last>>

filterVars == <<fargs, fsolutions, fresult>>

dataVars == <<raw, built, loaded>>

updateVars == <<wcopy, checked>>

runVars == <<rsolutions, todo, runinfo, resolved>>

configVars == <<mem, disk, cfgop>>

vars == <<syncVars, filterVars, dataVars, updateVars, runVars, configVars>>

--------------------------------------------------------------------------
(* Python values *)

None == [none |-> TRUE]
Some(v) == [val |-> v]

\* str.strip(): whitespace removed at both ends
RECURSIVE LStrip(_)
LStrip(s) == IF s # <<>> /\ Head(s) = " " THEN LStrip(Tail(s)) ELSE s

RECURSIVE RStrip(_)
RStrip(s) == IF s # <<>> /\ s[Len(s)] = " "
             THEN RStrip(SubSeq(s, 1, Len(s) - 1)) ELSE s

Strip(s) == RStrip(LStrip(s))

\* str(): of None, of an int, of a str
DigitChar(d) == <<"0", "1", "2", "3", "4", "5", "6", "7", "8", "9">>[d + 1]

RECURSIVE NatStr(_)
NatStr(n) == IF n < 10 THEN <<DigitChar(n)>>
             ELSE NatStr(n \div 10) \o <<DigitChar(n % 10)>>

Str(v) == IF v = None THEN <<"N", "o", "n", "e">>
          ELSE IF "int" \in DOMAIN v THEN NatStr(v.int)
          ELSE v.str

\* JSON values: null is None, a number IntVal(n), a string StrVal(s), a list
\* ListVal(l); a key an object lacks is Absent
IntVal(n) == [int |-> n]
StrVal(s) == [str |-> s]
ListVal(l) == [list |-> l]
Absent == [absent |-> TRUE]

\* the outcome of a call: a value, or an exception that leaves it
Ok(v) == [ok |-> TRUE, val |-> v]
Raise(e) == [ok |-> FALSE, exc |-> e]

\* os.path.join(a, b) of posixpath: an absolute b replaces a, and no
\* separator is added after an empty a or one that ends with the separator
Join(a, b) ==
    IF b # <<>> /\ Head(b) = "/" THEN b
    ELSE IF a = <<>> \/ a[Len(a)] = "/" THEN a \o b
    ELSE a \o <<"/">> \o b

EmptyMap == [x \in {} |-> None]

--------------------------------------------------------------------------
(* The data model of src/anysync.py *)

\* AnytaskTask: course id, title and name
AnytaskTask(course, title, name) ==
    [course_id |-> course, title |-> title, name |-> name]

\* AnytaskSVN.__init__: the path is stripped unless None, ids become strings
AnytaskSVN(path, review_id, revision) ==
    [path |-> IF path = None THEN None ELSE Some(Strip(path.str)),
     review_id |-> Str(review_id),
     revision |-> Str(revision)]

\* AnytaskSolution: task, student and the optional svn info
AnytaskSolution(task, student, svn) ==
    [task |-> task, student |-> student, svn |-> svn]

--------------------------------------------------------------------------
(* Inputs of the synchronizer *)

\* the total number of _sync_solution invocations of one run
MaxCalls == 3

UnsortedName == "unsorted"

TaskNames == {"hw1", "hw2"}

\* AnytaskStudent: display name and (relocated) account
Students == {[name |-> "Ann", repo |-> "ann"], [name |-> "Bob", repo |-> "bob"]}

RawPaths == {None, StrVal(<<>>), StrVal(<<" ">>), StrVal(<<"p">>),
             StrVal(<<"p", " ">>)}

RawReviewIds == {IntVal(1), IntVal(2)}

RawRevisions == {IntVal(7)}

ReviewIds == {Str(r) : r \in RawReviewIds}

\* link values the configuration file may hold, and what the prompt may add
LinkPaths == {<<"l">>}

AnswerPath == <<"l">>

\* the review request of the solutions of a task
RawReviewId(t) == IF t = "hw1" THEN IntVal(1) ELSE IntVal(2)

\* the svn info a solution of task t may carry
SvnInfos(t) ==
    {None} \cup {Some(AnytaskSVN(p, RawReviewId(t), rev)) :
                    p \in RawPaths, rev \in RawRevisions}

SyncSolutions ==
    UNION {{AnytaskSolution(AnytaskTask("c1", t, t), s, v) : s \in Students, v \in SvnInfos(t)} :
              t \in TaskNames}

\* exit status of "svn checkout"; "exc" is a failed invocation
SvnCodes == {"0", "1", "exc"}

\* what the user types at the prompt of _ask_add_link
Answers == {"empty", "badnum", "badpath", "path"}

\* what the environment of one invocation of _sync_solution does: whether
\* os.makedirs succeeds, the exit status of svn, the answer at the prompt and
\* whether the configuration file can be written. The prompt is read only
\* after a checkout that succeeded or without any checkout, and the file is
\* written only when the answer is a path.
Envs == {e \in [mk : BOOLEAN, code : SvnCodes, ans : Answers, saveok : BOOLEAN] :
            /\ e.ans # "path" => e.saveok
            /\ e.code # "0" => e.ans = "empty"}

--------------------------------------------------------------------------
(* AnytaskConfig: the RB_LINKS section *)

\* AnytaskConfig.get_link / _get_optval
get_link(lk, rid) == lk[rid]

\* AnytaskConfig.remove_link / _remove_optval: the option leaves the parser
\* before _save is tried
remove_link(lk, rid) == [lk EXCEPT ![rid] = None]

\* the option reported as added without being set
add_link_not_set(lk, rid, path) == lk

\* AnytaskConfig.add_link / _add_optval: the option is set before _save is
\* tried; the result is whether _save succeeded
add_link(lk, rid, path) == [lk EXCEPT ![rid] = Some(path)]

--------------------------------------------------------------------------
(* AnytaskSynchronizer *)

\* _make_destination: the directory of a solution
Destination(s, isForced) ==
    <<IF isForced THEN UnsortedName ELSE s.task.name, s.student.name>>

\* _make_destination: os.makedirs unless the directory exists; mk is whether
\* os.makedirs succeeds. The result is the path or None, and the directories.
MakeDestination(s, isForced, mk, ds) ==
    LET path == Destination(s, isForced) IN
    IF path \in ds THEN [dest |-> Some(path), dirs |-> ds]
    ELSE IF mk THEN [dest |-> Some(path), dirs |-> ds \cup {path}]
    ELSE [dest |-> None, dirs |-> ds]

\* the path '' taken for a path of its own
IsUnspecifiedNoneOnly(p) == p = None

\* _sync_solution, line 452: svn_path in [None, '']
IsUnspecified(p) == p = None \/ p = Some(<<>>)

\* the link preferred to the path of the solution
DirectSourceLinkFirst(s, lk) ==
    IF lk[s.svn.val.review_id] # None THEN lk[s.svn.val.review_id].val
    ELSE s.svn.val.path.val

\* _sync_solution, line 449 and the else branch of 483-490: with a path of
\* its own the solution is fetched from that path, whatever the link says
DirectSource(s, lk) == s.svn.val.path.val

\* _sync_solution, line 462: repo in self._forced
AlreadyForced(repo, f) == repo \in f

\* the account never recorded
MarkForcedForgotten(repo, f) == f

\* _sync_solution, line 476: self._forced.add(repo)
MarkForced(repo, f) == f \cup {repo}

\* _download: success is exit status 0 of the checkout
Download(code) == code = "0"

\* _ask_add_link: "True", "False" or "None", and the links afterwards.
\* The candidate directories are listed under the unsorted directory of the
\* student (OSError when it does not exist); an empty answer cancels, a
\* number out of range gives None, a path that is no directory gives False.
AskAddLink(s, ans, saveok, ds, lk) ==
    IF Destination(s, TRUE) \notin ds THEN [ret |-> "False", links |-> lk]
    ELSE IF ans = "empty" THEN [ret |-> "False", links |-> lk]
    ELSE IF ans = "badnum" THEN [ret |-> "None", links |-> lk]
    ELSE IF ans = "badpath" THEN [ret |-> "False", links |-> lk]
    ELSE [ret |-> IF saveok THEN "True" ELSE "False",
          links |-> add_link(lk, s.svn.val.review_id, AnswerPath)]

\* what one invocation of _sync_solution did: the route it took, whether the
\* redundancy warning was logged, the stores afterwards, the svn checkout it
\* invoked (None when it invoked none), whether it prompted for a link, and
\* whether it re-enters itself ("Rechecking needed")
Outcome(route, warned, lk, f, ds, checkout, asked, recheck) ==
    [route |-> route, warned |-> warned, links |-> lk, forced |-> f,
     dirs |-> ds, checkout |-> checkout, asked |-> asked, recheck |-> recheck]

\* _sync_solution, lines 492-500: make the destination unless the forced
\* route made it already, download, and prompt after a download of the
\* whole repository when asked to
Fetch(s, route, warned, svn_path, dest, lk, f, ds, mk, code, ans, saveok) ==
    LET md == IF dest = None THEN MakeDestination(s, FALSE, mk, ds)
              ELSE [dest |-> dest, dirs |-> ds]
    IN  IF md.dest = None
        THEN Outcome(route, warned, lk, f, md.dirs, None, FALSE, FALSE)
        ELSE LET ask == Download(code) /\ svn_path = <<>> /\ args.ask_link
                 a == AskAddLink(s, ans, saveok, md.dirs, lk)
             IN  Outcome(route, warned, IF ask THEN a.links ELSE lk, f, md.dirs,
                         Some([repo |-> s.student.repo, path |-> svn_path,
                               revision |-> s.svn.val.revision,
                               dest |-> md.dest.val, code |-> code]),
                         ask, ask /\ a.ret = "True")

\* _sync_solution: one invocation for solution s. mk: os.makedirs succeeds;
\* code: the exit status of svn; ans: the answer at the prompt; saveok: the
\* configuration file can be written.
SyncCall(s, mk, code, ans, saveok) ==
    IF s.svn = None
    THEN Outcome("nosvn", FALSE, links, forced, dirs, None, FALSE, FALSE)
    ELSE
    LET svn == s.svn.val
        rid == svn.review_id
        repo == s.student.repo
        link == get_link(links, rid)
    IN
    IF IsUnspecified(svn.path)
    THEN IF link = None
         THEN IF args.force
              THEN IF AlreadyForced(repo, forced)
                   THEN IF args.ask_link
                        THEN LET a == AskAddLink(s, ans, saveok, dirs, links)
                             IN  Outcome("already", FALSE, a.links, forced, dirs,
                                         None, TRUE, a.ret = "True")
                        ELSE Outcome("already", FALSE, links, forced, dirs,
                                     None, FALSE, FALSE)
                   ELSE LET md == MakeDestination(s, TRUE, mk, dirs)
                        IN  IF md.dest = None
                            THEN Outcome("forced", FALSE, links, forced, dirs,
                                         None, FALSE, FALSE)
                            ELSE Fetch(s, "forced", FALSE, <<>>, md.dest, links,
                                       MarkForced(repo, forced), md.dirs,
                                       mk, code, ans, saveok)
              ELSE Outcome("noforce", FALSE, links, forced, dirs, None,
                           FALSE, FALSE)
         ELSE Fetch(s, "linked", FALSE, link.val, None, links, forced, dirs,
                    mk, code, ans, saveok)
    ELSE LET warned == link # None
             lk == IF warned /\ args.remove_links
                   THEN remove_link(links, rid) ELSE links
         IN  Fetch(s, "direct", warned, DirectSource(s, links), None, lk, forced,
                   dirs, mk, code, ans, saveok)

--------------------------------------------------------------------------
(* AnytaskSynchronizer._filter_solutions *)

FilterTasks == {AnytaskTask("c1", "Intro", "hw1"),
                AnytaskTask("c1", "Loops", "hw2"),
                AnytaskTask("c2", "Intro", "hw1")}

FilterSolutions ==
    {AnytaskSolution(t, s, None) : t \in FilterTasks, s \in Students}

\* an allow-list of the command line: None when the option was not given,
\* else the list of its values (only their set is read)
CourseSelectors == {None, Some({}), Some({"c1"}), Some({"c1", "c2"})}
TaskSelectors == {None, Some({}), Some({"hw1"}), Some({"Intro"}), Some({"zz"})}
StudentSelectors == {None, Some({}), Some({"Ann"}), Some({"bob", "zz"})}

\* selected, lines 613-615:
\* (selector is None) or (len(set(values) & set(selector)) != 0)
selected(selector, values) ==
    selector = None \/ (values \cap selector.val) # {}

\* the lambda of _filter_solutions, lines 618-624
FilterAdmits(a, s) ==
    /\ selected(a.course, {s.task.course_id})
    /\ selected(a.task, {s.task.name, s.task.title})
    /\ selected(a.student, {s.student.name, s.student.repo})

\* _filter_solutions: the solutions the three tests admit, in order
filter_solutions(a, sols) == SelectSeq(sols, LAMBDA s : FilterAdmits(a, s))

InitFilter ==
    /\ fargs \in [course : CourseSelectors, task : TaskSelectors,
                  student : StudentSelectors]
    /\ fsolutions \in FilterSolutions \X FilterSolutions
    /\ fresult = None

IdleFilter ==
    /\ fargs = [course |-> None, task |-> None, student |-> None]
    /\ fsolutions = <<>>
    /\ fresult = None

FilterSolutionsCall ==
    /\ fresult = None
    /\ fresult' = Some(filter_solutions(fargs, fsolutions))
    /\ UNCHANGED <<fargs, fsolutions>>

--------------------------------------------------------------------------
(* The run of AnytaskSynchronizer.synchronize *)

NoCall ==
    [n |-> 0, sol |-> None, reentered |-> FALSE, top |-> "none",
     route |-> "none", warned |-> FALSE, checkout |-> None,
     asked |-> FALSE, recheck |-> FALSE]

\* main: --ask-link requires --force; AnytaskSynchronizer.__init__
InitSync ==
    /\ args \in {a \in [force : BOOLEAN, ask_link : BOOLEAN,
                        remove_links : BOOLEAN] : a.ask_link => a.force}
    /\ links \in [ReviewIds -> {None} \cup {Some(p) : p \in LinkPaths}]
    /\ forced = {}
    /\ dirs = {}
    /\ pending = None
    /\ bulk = [s \in {x.repo : x \in Students} |-> 0]
    /\ last = NoCall

\* One invocation of _sync_solution: for the next solution of the loop of
\* synchronize, or, after "Rechecking needed", for the same solution again.
SyncSolution ==
    /\ last.n < MaxCalls
    /\ \E s \in (IF pending = None THEN SyncSolutions ELSE {pending.val}) :
       \E o \in {SyncCall(s, e.mk, e.code, e.ans, e.saveok) : e \in Envs} :
          /\ links' = o.links
          /\ forced' = o.forced
          /\ dirs' = o.dirs
          /\ pending' = IF o.recheck THEN Some(s) ELSE None
          /\ bulk' = IF o.route = "forced" /\ o.checkout # None
                     THEN [bulk EXCEPT ![s.student.repo] = @ + 1]
                     ELSE bulk
          /\ last' = [n |-> last.n + 1, sol |-> Some(s),
                      reentered |-> pending # None,
                      top |-> IF pending # None THEN last.top ELSE o.route,
                      route |-> o.route, warned |-> o.warned,
                      checkout |-> o.checkout, asked |-> o.asked,
                      recheck |-> o.recheck]
    /\ UNCHANGED args

IdleSync ==
    /\ args = [force |-> FALSE, ask_link |-> FALSE, remove_links |-> FALSE]
    /\ links = [r \in ReviewIds |-> None]
    /\ forced = {}
    /\ dirs = {}
    /\ pending = None
    /\ bulk = [s \in {x.repo : x \in Students} |-> 0]
    /\ last = NoCall

--------------------------------------------------------------------------
(* Anytask (src/anysync.py): the names of the tasks *)

\* the depth at which the interpreter ends a recursion with RecursionError
RecursionLimit == 6

CourseId == "c1"

\* Anytask._load_tasks, lines 299-305: info[task_id] = (parent, title) for
\* every task that has the three keys (a KeyError is logged and the task is
\* left out); order is the order of the keys of the dict
RECURSIVE LoadInfo(_, _)
LoadInfo(tasks, info) ==
    IF tasks = <<>> THEN info
    ELSE LET task == Head(tasks)
             complete == /\ task.parent_task_id # Absent
                         /\ task.title # Absent
                         /\ task.task_id # Absent
             id == task.task_id.int
         IN  LoadInfo(Tail(tasks),
                IF ~complete THEN info
                ELSE [order |-> IF id \in DOMAIN info.map THEN info.order
                                ELSE Append(info.order, id),
                      map |-> (id :> <<task.parent_task_id, task.title>>)
                                  @@ info.map])

\* Anytask._normalize, lines 278-284, at recursion depth `depth`
RECURSIVE normalize(_, _, _)
normalize(task, tasks, depth) ==
    IF depth > RecursionLimit THEN Raise("RecursionError")
    ELSE IF task[1] = None THEN Ok(Strip(task[2].str))
    ELSE IF task[1].int \notin DOMAIN tasks THEN Raise("KeyError")
    ELSE LET parent == normalize(tasks[task[1].int], tasks, depth + 1)
         IN  IF ~parent.ok THEN parent
             ELSE Ok(Join(parent.val, Strip(task[2].str)))

\* Anytask._load_tasks, lines 307-308: the dict comprehension over info
RECURSIVE NormalizeAll(_, _, _)
NormalizeAll(order, info, names) ==
    IF order = <<>> THEN Ok(names)
    ELSE LET name == normalize(info[Head(order)], info, 1)
         IN  IF ~name.ok THEN name
             ELSE NormalizeAll(Tail(order), info,
                               (Head(order) :> name.val) @@ names)

\* Anytask._load_tasks: self._task_names, or the exception that leaves it
load_tasks(tasks) ==
    LET info == LoadInfo(tasks, [order |-> <<>>, map |-> EmptyMap])
    IN  NormalizeAll(info.order, info.map, EmptyMap)

--------------------------------------------------------------------------
(* Anytask (src/anysync.py): the students, tasks and solutions *)

\* Anytask._relocate with an empty RELOCS section
relocate(repo) == repo

\* Anytask._parse, lines 375-386: the svn info of a student record, None
\* when the record has none or one that lacks a key
ParseSvn(student) ==
    IF student.svn = Absent \/ student.svn = None THEN None
    ELSE IF \/ student.svn.svn_path = Absent
            \/ student.svn.rb_review_id = Absent
            \/ student.svn.svn_rev = Absent
         THEN None
         ELSE Some(AnytaskSVN(student.svn.svn_path, student.svn.rb_review_id,
                              student.svn.svn_rev))

\* Anytask._parse, lines 350-388: the students of one task. acc holds
\* self._students (account -> AnytaskStudent) and self._solutions.
RECURSIVE ParseStudents(_, _, _)
ParseStudents(students, task_obj, acc) ==
    IF students = <<>> THEN acc
    ELSE LET student == Head(students)
             rest == Tail(students)
         IN  IF student.user_name = Absent \/ student.username = Absent
             THEN ParseStudents(rest, task_obj, acc)
             ELSE LET username == relocate(student.username.str)
                      known == IF username \in DOMAIN acc.students
                               THEN acc.students
                               ELSE (username :>
                                        [name |-> student.user_name.str,
                                         repo |-> username]) @@ acc.students
                      solution == AnytaskSolution(task_obj, known[username],
                                                  ParseSvn(student))
                  IN  ParseStudents(rest, task_obj,
                          [acc EXCEPT !.students = known,
                                      !.solutions = Append(@, solution)])

\* Anytask._parse, lines 325-390: the tasks of the course. names is
\* self._task_names; acc also holds the keys of self._tasks and the ids of
\* the tasks whose students were read.
RECURSIVE ParseTasks(_, _, _)
ParseTasks(tasks, names, acc) ==
    IF tasks = <<>> THEN Ok(acc)
    ELSE LET task == Head(tasks)
             rest == Tail(tasks)
         IN  IF task.task_id = Absent \/ task.title = Absent
             THEN ParseTasks(rest, names, acc)
             ELSE IF task.task_id.int \notin DOMAIN names
             THEN Raise("KeyError")
             ELSE LET task_name == names[task.task_id.int]
                      task_obj == AnytaskTask(CourseId, Strip(task.title.str),
                                              task_name)
                      withTask == [acc EXCEPT !.tasks =
                                      @ \cup {<<CourseId, task_name>>}]
                  IN  IF task.students = Absent
                      THEN ParseTasks(rest, names, withTask)
                      ELSE ParseTasks(rest, names,
                              ParseStudents(task.students.list, task_obj,
                                  [withTask EXCEPT !.read =
                                      @ \cup {task.task_id.int}]))

\* Anytask.__init__ after the course was fetched: _parse, which starts with
\* _load_tasks. The result holds _task_names and what _parse built, or the
\* exception that leaves the constructor.
anytask_init(tasks) ==
    LET names == load_tasks(tasks)
    IN  IF ~names.ok THEN names
        ELSE LET parsed == ParseTasks(tasks, names.val,
                               [students |-> EmptyMap, tasks |-> {},
                                solutions |-> <<>>, read |-> {}])
             IN  IF ~parsed.ok THEN parsed
                 ELSE Ok([task_names |-> names.val,
                          students |-> parsed.val.students,
                          tasks |-> parsed.val.tasks,
                          solutions |-> parsed.val.solutions,
                          read |-> parsed.val.read])

--------------------------------------------------------------------------
(* _AnytaskParser (src/anytask.py): the validator *)

\* the svn object without any key
EmptySvn == [svn_path |-> Absent, rb_review_id |-> Absent, svn_rev |-> Absent]

\* the truth value of a JSON value: null, 0, '' and {} are false
Truthy(v) ==
    /\ v # None
    /\ v # IntVal(0)
    /\ v # StrVal(<<>>)
    /\ v # EmptySvn

\* a student without the svn key kept as one without a submission
filter_students_keep_nosvn(student) ==
    IF student.username = Absent THEN None
    ELSE IF student.user_name = Absent THEN None
    ELSE IF student.score = Absent THEN None
    ELSE IF ~Truthy(student.score) THEN None
    ELSE IF student.svn = Absent \/ ~Truthy(student.svn)
         THEN Some([username |-> student.username,
                    user_name |-> student.user_name,
                    svn |-> None])
         ELSE Some([username |-> student.username,
                    user_name |-> student.user_name,
                    svn |-> [svn_path |-> IF student.svn.svn_path = Absent
                                          THEN StrVal(<<>>)
                                          ELSE student.svn.svn_path,
                             svn_rev |-> IF student.svn.svn_rev = Absent
                                         THEN None
                                         ELSE student.svn.svn_rev]])

\* _AnytaskParser._filter_students, lines 95-153: None for a dropped student
filter_students(student) ==
    IF student.username = Absent THEN None
    ELSE IF student.user_name = Absent THEN None
    ELSE IF student.score = Absent THEN None
    ELSE IF ~Truthy(student.score) THEN None
    ELSE IF student.svn = Absent THEN None
    ELSE IF ~Truthy(student.svn)
         THEN Some([username |-> student.username,
                    user_name |-> student.user_name,
                    svn |-> None])
         ELSE Some([username |-> student.username,
                    user_name |-> student.user_name,
                    svn |-> [svn_path |-> IF student.svn.svn_path = Absent
                                          THEN StrVal(<<>>)
                                          ELSE student.svn.svn_path,
                             svn_rev |-> IF student.svn.svn_rev = Absent
                                         THEN None
                                         ELSE student.svn.svn_rev]])

\* list(filter(None, map(_filter_students, students))), lines 89-91
RECURSIVE ValidStudents(_)
ValidStudents(items) ==
    IF items = <<>> THEN <<>>
    ELSE LET x == filter_students(Head(items))
         IN  (IF x = None THEN <<>> ELSE <<x.val>>)
             \o ValidStudents(Tail(items))

\* _AnytaskParser._filter_task, lines 59-93: None for a dropped task
filter_task(task) ==
    IF task.task_id = Absent THEN None
    ELSE IF task.title = Absent THEN None
    ELSE Some([task_id |-> task.task_id,
               title |-> task.title,
               parent_task_id |-> IF task.parent_task_id = Absent THEN None
                                  ELSE task.parent_task_id,
               students |-> IF task.students = Absent THEN <<>>
                            ELSE ValidStudents(task.students.list)])

\* _AnytaskParser.filter_valid, lines 50-56, of the tasks of the course:
\* list(filter(None, map(_filter_task, tasks)))
RECURSIVE filter_valid(_)
filter_valid(tasks) ==
    IF tasks = <<>> THEN <<>>
    ELSE LET x == filter_task(Head(tasks))
         IN  (IF x = None THEN <<>> ELSE <<x.val>>)
             \o filter_valid(Tail(tasks))

--------------------------------------------------------------------------
(* _AnytaskParser (src/anytask.py): the names of the tasks and the data *)

\* _linearize_tasks, lines 161-164: task_names, every task under the tuple
\* of its own title
RECURSIVE LinearNames(_, _)
LinearNames(data, names) ==
    IF data = <<>> THEN names
    ELSE LinearNames(Tail(data),
                     (Head(data).task_id.int :> <<Head(data).title.str>>)
                         @@ names)

\* _linearize_tasks, lines 161-164: inv_idx as the sequence of (parent,
\* child) pairs in the order the loop of lines 166-168 visits them: parents
\* in the order they were first seen, the children of each in list order
RECURSIVE ParentsSeen(_, _)
ParentsSeen(data, seen) ==
    IF data = <<>> THEN seen
    ELSE LET p == Head(data).parent_task_id
         IN  ParentsSeen(Tail(data),
                 IF Truthy(p) /\ \A i \in 1..Len(seen) : seen[i] # p.int
                 THEN Append(seen, p.int) ELSE seen)

RECURSIVE ChildsOf(_, _)
ChildsOf(parent, data) ==
    IF data = <<>> THEN <<>>
    ELSE LET p == Head(data).parent_task_id
         IN  (IF Truthy(p) /\ p.int = parent
              THEN <<<<parent, Head(data).task_id.int>>>> ELSE <<>>)
             \o ChildsOf(parent, Tail(data))

RECURSIVE InvIdx(_, _)
InvIdx(parents, data) ==
    IF parents = <<>> THEN <<>>
    ELSE ChildsOf(Head(parents), data) \o InvIdx(Tail(parents), data)

\* _linearize_tasks, lines 166-168:
\* task_names[child] = task_names[parent] + task_names[child]
RECURSIVE LinearApply(_, _)
LinearApply(pairs, names) ==
    IF pairs = <<>> THEN Ok(names)
    ELSE LET parent == Head(pairs)[1]
             child == Head(pairs)[2]
         IN  IF parent \notin DOMAIN names THEN Raise("KeyError")
             ELSE LinearApply(Tail(pairs),
                      (child :> names[parent] \o names[child]) @@ names)

\* _AnytaskParser._linearize_tasks
linearize_tasks(data) ==
    LinearApply(InvIdx(ParentsSeen(data, <<>>), data),
                LinearNames(data, EmptyMap))

\* _AnytaskParser.parse, lines 182-192: the solutions of one task
RECURSIVE ParsedSolutions(_, _)
ParsedSolutions(task_id, students) ==
    IF students = <<>> THEN <<>>
    ELSE LET student == Head(students)
             svn == student.svn
         IN  <<[task_id |-> task_id,
                student |-> student.username.str,
                svn_rev |-> IF svn = None THEN None ELSE svn.svn_rev,
                svn_path |-> IF svn = None THEN None ELSE svn.svn_path]>>
             \o ParsedSolutions(task_id, Tail(students))

RECURSIVE ParsedData(_)
ParsedData(data) ==
    IF data = <<>> THEN <<>>
    ELSE ParsedSolutions(Head(data).task_id.int, Head(data).students)
         \o ParsedData(Tail(data))

\* AnytaskDataProvider.load_course after the course was fetched:
\* _AnytaskParser.parse(_AnytaskParser.filter_valid(data)). The result holds
\* the valid tasks, their names and the solutions, or the exception.
load_course(tasks) ==
    LET data == filter_valid(tasks)
        names == linearize_tasks(data)
    IN  IF ~names.ok THEN names
        ELSE Ok([valid |-> data, task_names |-> names.val,
                 solutions |-> ParsedData(data)])

--------------------------------------------------------------------------
(* The course data: inputs and calls *)

\* the number of tasks of the course
MaxTasks == 3

Titles == {<<"a">>, <<" ", "b">>, <<"/", "c">>}

\* a student record with every key and no svn
PlainStudent(account, name) ==
    [username |-> StrVal(account), user_name |-> StrVal(name),
     score |-> IntVal(5), svn |-> None]

\* the values of 'parent_task_id': no key, null, a task of the course, or an
\* id that no task of the course has
ParentValues == {Absent, None} \cup {IntVal(i) : i \in 1..(MaxTasks + 1)}

TitleValues == {Absent} \cup {StrVal(x) : x \in Titles}

\* the task list of a course: task i has id i, f gives its parent and title
RawTaskList(f) ==
    [i \in 1..MaxTasks |->
        [task_id |-> IntVal(i), parent_task_id |-> f[i][1], title |-> f[i][2],
         students |-> ListVal(<<PlainStudent("ann", "Ann")>>)]]

\* the svn objects of a student record: any of the three keys may lack
SvnBlocks ==
    [svn_path : {Absent, StrVal(<<"p">>)},
     rb_review_id : {Absent, IntVal(1)},
     svn_rev : {Absent, IntVal(7)}]

\* the student records of a task
RawStudents(account, name) ==
    [username : {Absent, StrVal(account)},
     user_name : {Absent, StrVal(name)},
     score : {Absent, IntVal(0), IntVal(5)},
     svn : {Absent, None} \cup SvnBlocks]

\* one root task with two student records
RawStudentLists ==
    {<<[task_id |-> IntVal(1), parent_task_id |-> None,
        title |-> StrVal(<<"a">>), students |-> ListVal(<<s1, s2>>)]>> :
     s1 \in RawStudents("ann", "Ann"), s2 \in RawStudents("bob", "Bob")}

InitTasks ==
    /\ \E f \in [1..MaxTasks -> ParentValues \X TitleValues] :
           raw = RawTaskList(f)
    /\ built = None
    /\ loaded = None

InitStudents ==
    /\ raw \in RawStudentLists
    /\ built = None
    /\ loaded = None

IdleData ==
    /\ raw = <<>>
    /\ built = None
    /\ loaded = None

\* Anytask.__init__ of src/anysync.py on the course
AnytaskInit ==
    /\ built = None
    /\ built' = Some(anytask_init(raw))
    /\ UNCHANGED <<raw, loaded>>

\* AnytaskDataProvider.load_course of src/anytask.py on the course
LoadCourse ==
    /\ loaded = None
    /\ loaded' = Some(load_course(raw))
    /\ UNCHANGED <<raw, built>>

--------------------------------------------------------------------------
(* AnytaskSynchronizer._is_updated *)

\* the revisions 'svn info' may report, as the text of the attribute
ReportedRevisions == {<<"7">>, <<"0", "7">>, <<"1", "2">>}

\* an 'entry' element: the attribute 'revision' is None when it lacks
InfoEntries == [revision : {None} \cup {Some(r) : r \in ReportedRevisions}]

\* the documents 'svn info --xml' may print: the 'entry' elements in
\* document order, none, one or two of them
InfoDocuments ==
    {<<>>} \cup {<<e>> : e \in InfoEntries}
           \cup {<<[revision |-> None], [revision |-> Some(<<"7">>)]>>,
                 <<[revision |-> Some(<<"7">>)],
                   [revision |-> Some(<<"1", "2">>)]>>,
                 <<[revision |-> Some(<<"1", "2">>)],
                   [revision |-> Some(<<"7">>)]>>}

\* what subprocess.check_output(["svn", "info", "--xml", path]) does: the
\* client cannot be started ("exc"), exits with a status that is not zero
\* ("1"), or exits with zero and output that is a document or not XML (None)
InfoOutcomes ==
    {[code |-> "exc", xml |-> None], [code |-> "1", xml |-> None],
     [code |-> "0", xml |-> None]}
    \cup {[code |-> "0", xml |-> Some(d)] : d \in InfoDocuments}

\* the solutions _is_updated is asked about: without svn info, or with an
\* expected revision
UpdateSolutions ==
    {AnytaskSolution(AnytaskTask(CourseId, "hw1", "hw1"), st, svn) :
        st \in Students,
        svn \in {None} \cup
                {Some(AnytaskSVN(StrVal(<<"p">>), IntVal(1), rev)) :
                     rev \in {IntVal(7), IntVal(12)}}}

\* the directories _is_updated looks at
UpdatePaths == {Destination(s, FALSE) : s \in UpdateSolutions}

\* the last of the entries taken for the first
last_entry(entries) == entries[Len(entries)]

\* _is_updated, line 610: entries[0]
first_entry(entries) == entries[1]

\* _is_updated, lines 579-610, for the working copies wc. OSError of
\* check_output and AttributeError of solution.svn.revision are not caught.
is_updated(s, wc) ==
    LET path == Destination(s, FALSE) IN
    IF wc[path] = None THEN Ok(s.svn = None)
    ELSE LET info == wc[path].val IN
         IF info.code = "exc" THEN Raise("OSError")
         ELSE IF info.code # "0" THEN Ok(FALSE)
         ELSE IF info.xml = None THEN Ok(FALSE)
         ELSE IF Len(info.xml.val) = 0 THEN Ok(FALSE)
         ELSE IF first_entry(info.xml.val).revision = None THEN Ok(FALSE)
         ELSE IF s.svn = None THEN Raise("AttributeError")
         ELSE Ok(first_entry(info.xml.val).revision.val
                     = s.svn.val.revision)

NoCheck == [sol |-> None, result |-> None]

InitUpdate ==
    /\ wcopy \in [UpdatePaths -> {None} \cup {Some(o) : o \in InfoOutcomes}]
    /\ checked = NoCheck

IdleUpdate ==
    /\ wcopy = EmptyMap
    /\ checked = NoCheck

\* one call of _is_updated, as get_updated makes it for a solution
IsUpdated ==
    \E s \in UpdateSolutions :
        /\ checked' = [sol |-> Some(s), result |-> Some(is_updated(s, wcopy))]
        /\ UNCHANGED wcopy

--------------------------------------------------------------------------
(* AnytaskSynchronizer.synchronize: a run, and the run that follows it *)

\* the number of solutions of the course
MaxSolutions == 2

\* the solutions of the course: of Ann for the first task without svn info,
\* with a review id only and with a path of her own, of Ann for the second
\* task and of Bob for the first with a review id only
RunSolutions ==
    {AnytaskSolution(AnytaskTask(CourseId, "hw1", "hw1"),
                     [name |-> "Ann", repo |-> "ann"], v) :
        v \in {None,
               Some(AnytaskSVN(None, RawReviewId("hw1"), IntVal(7))),
               Some(AnytaskSVN(StrVal(<<"p">>), RawReviewId("hw1"),
                               IntVal(7)))}}
    \cup {AnytaskSolution(AnytaskTask(CourseId, "hw2", "hw2"),
                          [name |-> "Ann", repo |-> "ann"],
                          Some(AnytaskSVN(None, RawReviewId("hw2"),
                                          IntVal(7)))),
          AnytaskSolution(AnytaskTask(CourseId, "hw1", "hw1"),
                          [name |-> "Bob", repo |-> "bob"],
                          Some(AnytaskSVN(None, RawReviewId("hw1"),
                                          IntVal(7))))}

\* the directories a run may make
RunPaths == {Destination(s, f) : s \in RunSolutions, f \in BOOLEAN}

\* what 'svn info' gives for a directory that is no working copy
PlainDirectory == Some([code |-> "1", xml |-> None])

\* what 'svn info' gives after 'svn checkout ...@rev' exited with 0
WorkingCopy(rev) ==
    Some([code |-> "0", xml |-> Some(<<[revision |-> Some(rev)]>>)])

\* the disk after an invocation of _sync_solution with outcome o: the
\* directories os.makedirs made, and the working copy a checkout that
\* succeeded left in its destination
AfterSync(wc, o) ==
    [p \in DOMAIN wc |->
        IF /\ o.checkout # None
           /\ o.checkout.val.dest = p
           /\ o.checkout.val.code = "0"
        THEN WorkingCopy(o.checkout.val.revision)
        ELSE IF p \in o.dirs /\ wc[p] = None THEN PlainDirectory
        ELSE wc[p]]

\* what 'svn info' does now: as the disk says, or, when the client cannot
\* be started, OSError for every directory
Inspection(wc, startable) ==
    [p \in DOMAIN wc |->
        IF wc[p] = None \/ startable THEN wc[p]
        ELSE Some([code |-> "exc", xml |-> None])]

\* the invocation did not fetch the solution: the destination could not be
\* made, or the checkout failed
FailedFetch(o) ==
    \/ o.route \in {"forced", "linked", "direct"} /\ o.checkout = None
    \/ o.checkout # None /\ o.checkout.val.code # "0"

\* the invocation checked the solution out: 'svn checkout' exited with 0
Fetched(o) == o.checkout # None /\ o.checkout.val.code = "0"

\* the loop given up at the first failure
advance_until_failure(rest, o) ==
    IF FailedFetch(o) THEN <<>> ELSE Tail(rest)

\* synchronize, lines 637-638: the for loop goes on to the next solution
\* whatever the invocation did
advance(rest, o) == Tail(rest)

FirstRun == "first"
FollowingRun == "following"

InitRun ==
    /\ rsolutions \in [1..MaxSolutions -> RunSolutions]
    /\ todo = rsolutions
    /\ runinfo \in [no : {FirstRun}, update : BOOLEAN, state : {"running"},
                    earlier : {{}}]
    /\ resolved = <<>>
    /\ wcopy = [p \in RunPaths |-> None]
    /\ checked = NoCheck

IdleRun ==
    /\ rsolutions = <<>>
    /\ todo = <<>>
    /\ runinfo = [no |-> FirstRun, update |-> FALSE, state |-> "idle",
                  earlier |-> {}]
    /\ resolved = <<>>

\* what an invocation of _sync_solution for s with outcome o leaves
SyncEffects(s, o) ==
    /\ links' = o.links
    /\ forced' = o.forced
    /\ dirs' = o.dirs
    /\ wcopy' = AfterSync(wcopy, o)
    /\ pending' = IF o.recheck THEN Some(s) ELSE None
    /\ bulk' = IF o.route = "forced" /\ o.checkout # None
               THEN [bulk EXCEPT ![s.student.repo] = @ + 1]
               ELSE bulk
    /\ last' = [n |-> last.n + 1, sol |-> Some(s),
                reentered |-> pending # None,
                top |-> IF pending # None THEN last.top ELSE o.route,
                route |-> o.route, warned |-> o.warned,
                checkout |-> o.checkout, asked |-> o.asked,
                recheck |-> o.recheck]
    /\ UNCHANGED args

\* get_updated, lines 642-645, for the next solution of the loop: filter is
\* lazy, so _is_updated runs when the loop asks for the solution. An
\* exception of _is_updated leaves synchronize.
Select ==
    /\ runinfo.state = "running"
    /\ runinfo.update
    /\ pending = None
    /\ todo # <<>>
    /\ checked.sol = None
    /\ \E startable \in BOOLEAN :
          LET r == is_updated(Head(todo), Inspection(wcopy, startable)) IN
          /\ checked' = [sol |-> Some(Head(todo)), result |-> Some(r)]
          /\ IF ~r.ok
             THEN /\ runinfo' = [runinfo EXCEPT !.state = "aborted"]
                  /\ UNCHANGED <<todo, resolved>>
             ELSE IF r.val
             THEN /\ todo' = Tail(todo)
                  /\ resolved' = Append(resolved,
                        [sol |-> Head(todo), kind |-> "uptodate",
                         failed |-> FALSE, fetched |-> FALSE])
                  /\ UNCHANGED runinfo
             ELSE UNCHANGED <<todo, resolved, runinfo>>
    /\ UNCHANGED <<syncVars, wcopy, rsolutions>>

\* synchronize, lines 637-638: _sync_solution for the next solution (in
\* update mode: the next one _is_updated gave False for)
Resolve ==
    /\ runinfo.state = "running"
    /\ pending = None
    /\ todo # <<>>
    /\ runinfo.update =>
          /\ checked.sol = Some(Head(todo))
          /\ checked.result.val = Ok(FALSE)
    /\ \E o \in {SyncCall(Head(todo), e.mk, e.code, e.ans, e.saveok) :
                    e \in Envs} :
          /\ SyncEffects(Head(todo), o)
          /\ todo' = advance(todo, o)
          /\ resolved' = Append(resolved,
                [sol |-> Head(todo), kind |-> o.route,
                 failed |-> FailedFetch(o), fetched |-> Fetched(o)])
    /\ checked' = NoCheck
    /\ UNCHANGED <<rsolutions, runinfo>>

\* _sync_solution, lines 465-468 and 497-500: the invocation for the same
\* solution after "Rechecking needed"
Recheck ==
    /\ runinfo.state = "running"
    /\ pending # None
    /\ \E o \in {SyncCall(pending.val, e.mk, e.code, e.ans, e.saveok) :
                    e \in Envs} :
          SyncEffects(pending.val, o)
    /\ UNCHANGED <<checked, runVars, configVars>>

\* synchronize, line 640: the loop is over
Completed ==
    /\ runinfo.state = "running"
    /\ pending = None
    /\ todo = <<>>
    /\ runinfo' = [runinfo EXCEPT !.state = "done"]
    /\ UNCHANGED <<syncVars, updateVars, rsolutions, todo, resolved>>

\* the program is started again, with --update, on the same course data,
\* configuration file and disk: a new AnytaskSynchronizer, whose _forced is
\* empty
StartAgain ==
    /\ runinfo.no = FirstRun
    /\ runinfo.state \in {"done", "aborted"}
    /\ runinfo' = [no |-> FollowingRun, update |-> TRUE, state |-> "running",
                   earlier |-> {[sol |-> resolved[i].sol,
                                 kind |-> resolved[i].kind] :
                                i \in {j \in 1..Len(resolved) :
                                         resolved[j].fetched}}]
    /\ todo' = rsolutions
    /\ resolved' = <<>>
    /\ forced' = {}
    /\ bulk' = [s \in DOMAIN bulk |-> 0]
    /\ last' = NoCall
    /\ checked' = NoCheck
    /\ UNCHANGED <<args, links, dirs, pending, wcopy, rsolutions>>

--------------------------------------------------------------------------
(* AnytaskConfig: the Link and Relocation stores and the file *)

\* the accounts a relocation may be stored for, and the values stored
RelocKeys == {"ann", "bob"}

RelocValues == {<<"x">>}

\* the paths a Link may be stored with: the second is read back trimmed
StoredPaths == {<<"l">>, <<" ", "m">>}

\* AnytaskConfig.get_reloc / _get_optval
get_reloc(rl, repo) == rl[repo]

\* AnytaskConfig.remove_reloc / _remove_optval, before _save
remove_reloc(rl, repo) == [rl EXCEPT ![repo] = None]

\* AnytaskConfig.add_reloc / _add_optval, before _save
add_reloc(rl, repo, to) == [rl EXCEPT ![repo] = Some(to)]

\* what open(filename, 'w') and ConfigParser.write do: the file is written
\* ("ok"), cannot be opened ("denied"), or is truncated by open and the
\* write fails ("torn")
SaveOutcomes == {"ok", "denied", "torn"}

\* one section as ConfigParser reads it back from the file it wrote: the
\* values without the white space around them
ReadBack(section) ==
    [k \in DOMAIN section |->
        IF section[k] = None THEN None ELSE Some(Strip(section[k].val))]

\* a section without options
NoOptions(section) == [k \in DOMAIN section |-> None]

\* _add_optval / _remove_optval, lines 180-187 and 195-202, after the
\* option was set or removed in memory (m): _save writes the whole
\* configuration; an exception of _save is caught and the result is False.
\* Nothing is undone in memory.
save(m, d, outcome) ==
    [memory |-> m,
     file |-> IF outcome = "ok"
              THEN [RB_LINKS |-> ReadBack(m.RB_LINKS),
                    RELOCS |-> ReadBack(m.RELOCS)]
              ELSE IF outcome = "denied" THEN d
              ELSE [RB_LINKS |-> NoOptions(d.RB_LINKS),
                    RELOCS |-> NoOptions(d.RELOCS)],
     ret |-> outcome = "ok"]

NoOp == [op |-> "none", ret |-> None]

\* AnytaskConfig.__init__: the configuration is read from the file
InitConfig ==
    /\ disk \in [RB_LINKS : [ReviewIds -> {None, Some(<<"l">>)}],
                 RELOCS : [RelocKeys -> {None} \cup
                                        {Some(v) : v \in RelocValues}]]
    /\ mem = disk
    /\ cfgop = NoOp

IdleConfig ==
    /\ mem = [RB_LINKS |-> [r \in ReviewIds |-> None],
              RELOCS |-> [k \in RelocKeys |-> None]]
    /\ disk = mem
    /\ cfgop = NoOp

\* the stores after an operation changed the memory to m
Saved(op, m) ==
    \E outcome \in SaveOutcomes :
        LET r == save(m, disk, outcome) IN
        /\ mem' = r.memory
        /\ disk' = r.file
        /\ cfgop' = [op |-> op, ret |-> Some(r.ret)]

AddLink ==
    \E rid \in ReviewIds, path \in StoredPaths :
        Saved("add_link",
              [mem EXCEPT !.RB_LINKS = add_link(@, rid, path)])

RemoveLink ==
    \E rid \in ReviewIds :
        Saved("remove_link", [mem EXCEPT !.RB_LINKS = remove_link(@, rid)])

AddReloc ==
    \E repo \in RelocKeys, to \in RelocValues :
        Saved("add_reloc", [mem EXCEPT !.RELOCS = add_reloc(@, repo, to)])

RemoveReloc ==
    \E repo \in RelocKeys :
        Saved("remove_reloc", [mem EXCEPT !.RELOCS = remove_reloc(@, repo)])

\* get_link and get_reloc read the memory
GetLink ==
    \E rid \in ReviewIds :
        /\ cfgop' = [op |-> "get_link", ret |-> get_link(mem.RB_LINKS, rid)]
        /\ UNCHANGED <<mem, disk>>

GetReloc ==
    \E repo \in RelocKeys :
        /\ cfgop' = [op |-> "get_reloc", ret |-> get_reloc(mem.RELOCS, repo)]
        /\ UNCHANGED <<mem, disk>>

--------------------------------------------------------------------------
(* Specifications *)

\* a run of synchronize
Init ==
    /\ InitSync
    /\ IdleFilter /\ IdleData /\ IdleUpdate /\ IdleRun /\ IdleConfig

Next ==
    /\ SyncSolution
    /\ UNCHANGED <<filterVars, dataVars, updateVars, runVars, configVars>>

Spec == Init /\ [][Next]_vars

\* a call of _filter_solutions
InitSelect ==
    InitFilter /\ IdleSync /\ IdleData /\ IdleUpdate /\ IdleRun /\ IdleConfig

NextSelect ==
    /\ FilterSolutionsCall
    /\ UNCHANGED <<syncVars, dataVars, updateVars, runVars, configVars>>

SpecFilter == InitSelect /\ [][NextSelect]_vars

\* building the data of a course from its task list
InitCourse ==
    InitTasks /\ IdleSync /\ IdleFilter /\ IdleUpdate /\ IdleRun /\ IdleConfig

NextData ==
    \/ /\ AnytaskInit
       /\ UNCHANGED <<syncVars, filterVars, updateVars, runVars, configVars>>
    \/ /\ LoadCourse
       /\ UNCHANGED <<syncVars, filterVars, updateVars, runVars, configVars>>

SpecTasks == InitCourse /\ [][NextData]_vars

\* building the data of a task from its student records
InitRecords ==
    /\ InitStudents
    /\ IdleSync /\ IdleFilter /\ IdleUpdate /\ IdleRun /\ IdleConfig

SpecStudents == InitRecords /\ [][NextData]_vars

\* calls of _is_updated on the working copies of a course
InitCheck ==
    InitUpdate /\ IdleSync /\ IdleFilter /\ IdleData /\ IdleRun /\ IdleConfig

NextCheck ==
    /\ IsUpdated
    /\ UNCHANGED <<syncVars, filterVars, dataVars, runVars, configVars>>

SpecUpdate == InitCheck /\ [][NextCheck]_vars

\* a run of synchronize over the course and the run that follows it
InitRuns ==
    InitSync /\ InitRun /\ IdleFilter /\ IdleData /\ IdleConfig

NextRuns ==
    \/ Select /\ UNCHANGED <<filterVars, dataVars, configVars>>
    \/ Resolve /\ UNCHANGED <<filterVars, dataVars, configVars>>
    \/ Recheck /\ UNCHANGED <<filterVars, dataVars, configVars>>
    \/ Completed /\ UNCHANGED <<filterVars, dataVars, configVars>>
    \/ StartAgain /\ UNCHANGED <<filterVars, dataVars, configVars>>

SpecRuns == InitRuns /\ [][NextRuns]_vars

\* operations on the stores of a configuration
InitStores ==
    InitConfig /\ IdleSync /\ IdleFilter /\ IdleData /\ IdleUpdate /\ IdleRun

OtherVars == <<syncVars, filterVars, dataVars, updateVars, runVars>>

NextStores ==
    \/ AddLink /\ UNCHANGED OtherVars
    \/ RemoveLink /\ UNCHANGED OtherVars
    \/ AddReloc /\ UNCHANGED OtherVars
    \/ RemoveReloc /\ UNCHANGED OtherVars
    \/ GetLink /\ UNCHANGED OtherVars
    \/ GetReloc /\ UNCHANGED OtherVars

SpecConfig == InitStores /\ [][NextStores]_vars

--------------------------------------------------------------------------
(* Properties of the submission resolver *)

\* the solution of the invocation a step performs, and its svn info
CalledSync == last'.n # last.n
CalledSvn == last'.sol.val.svn.val

\* C1: in _sync_solution, a submission with a non-empty path of its own and
\* an existing Link for its review id takes the direct route: the checkout,
\* when one is invoked (the destination could be made), gets the
\* submission's own path as its source, never the linked path; the
\* redundancy warning is logged; and the Link store changes only when
\* remove_links is set.
C1_DirectPathWins ==
    [][(/\ CalledSync
        /\ last'.sol.val.svn # None
        /\ CalledSvn.path # None
        /\ CalledSvn.path.val # <<>>
        /\ links[CalledSvn.review_id] # None)
       => /\ last'.route = "direct"
          /\ last'.warned
          /\ last'.checkout # None
                => last'.checkout.val.path = CalledSvn.path.val
          /\ Destination(last'.sol.val, FALSE) \in dirs'
                => last'.checkout # None
          /\ links' # links => args.remove_links]_vars

C1_Witness ==
    /\ last.route = "direct"
    /\ last.warned
    /\ last.checkout # None
    /\ last.checkout.val.path = last.sol.val.svn.val.path.val
    /\ links[last.sol.val.svn.val.review_id] # None
    /\ links[last.sol.val.svn.val.review_id].val # last.checkout.val.path

\* C2 (as amended): in a run with force, the forced bulk checkout (empty
\* source into the unsorted directory) is invoked at most once per account;
\* an unresolved submission of an account already fetched in bulk takes the
\* "already" route, which invokes no checkout, and a checkout follows for it
\* only in the re-entered invocation after the prompt of ask_link added a
\* Link, and then from the linked path.
C2_BulkOncePerAccount ==
    /\ \A r \in DOMAIN bulk : bulk[r] <= 1
    /\ last.route = "already" => last.checkout = None
    /\ (last.top = "already" /\ last.checkout # None)
          => /\ args.ask_link
             /\ last.reentered
             /\ last.route = "linked"
             /\ last.checkout.val.path # <<>>

C2_Witness ==
    /\ last.route = "already"
    /\ bulk[last.sol.val.student.repo] = 1
    /\ last.checkout = None
    /\ ~last.recheck

\* C2 as stated: at most one forced bulk checkout per account, and no
\* checkout for any later unresolved submission of the account.
C2_Original ==
    /\ \A r \in DOMAIN bulk : bulk[r] <= 1
    /\ last.top = "already" => last.checkout = None

\* C3: a submission with an empty or None path, no Link for its review id
\* and force disabled is skipped by _sync_solution: no checkout is invoked
\* and the directories, the accounts fetched in bulk and the Link store stay
\* as they were.
C3_UnresolvedNoForceSkips ==
    [][(/\ CalledSync
        /\ last'.sol.val.svn # None
        /\ (CalledSvn.path = None \/ CalledSvn.path = Some(<<>>))
        /\ links[CalledSvn.review_id] = None
        /\ ~args.force)
       => /\ last'.checkout = None
          /\ ~last'.recheck
          /\ dirs' = dirs
          /\ forced' = forced
          /\ bulk' = bulk
          /\ links' = links]_vars

C3_Witness ==
    /\ last.route = "noforce"
    /\ last.sol.val.svn.val.path = Some(<<>>)
    /\ dirs # {}

--------------------------------------------------------------------------
(* Properties of the selection filter *)

\* an allow-list as C4 reads it: unset and empty both admit everything
AllowListAdmits(selector, values) ==
    \/ selector = None
    \/ selector.val = {}
    \/ (values \cap selector.val) # {}

--------------------------------------------------------------------------
(* Properties of the task hierarchy *)

\* the raw task lists give task i the id i
TaskIds == 1..Len(raw)

HasParent(i) == raw[i].parent_task_id \notin {Absent, None}

ParentId(i) == raw[i].parent_task_id.int

\* task i names a parent that is no task of the course
Dangling(i) == HasParent(i) /\ ParentId(i) \notin TaskIds

\* the ancestors of task i, at most n links up
RECURSIVE Ancestors(_, _)
Ancestors(i, n) ==
    IF n = 0 \/ ~HasParent(i) \/ Dangling(i) THEN {}
    ELSE {ParentId(i)} \cup Ancestors(ParentId(i), n - 1)

\* task i is its own transitive ancestor
OnCycle(i) == i \in Ancestors(i, Len(raw))

\* every task has a title and the parent key
Complete ==
    \A i \in TaskIds : raw[i].title # Absent /\ raw[i].parent_task_id # Absent

Acyclic == \A i \in TaskIds : ~OnCycle(i)

NoDangling == \A i \in TaskIds : ~Dangling(i)

TrimmedTitle(i) == Strip(raw[i].title.str)

\* C5: for an acyclic hierarchy in which every parent id is present, the
\* name _load_tasks computes for a task is the name of its parent, the
\* separator and the trimmed title when it has a parent, and the trimmed
\* title alone when it has none.
C5_QualifiedNames ==
    (built # None /\ Complete /\ Acyclic /\ NoDangling) =>
        /\ built.val.ok
        /\ \A i \in TaskIds :
              built.val.val.task_names[i] =
                  IF HasParent(i)
                  THEN built.val.val.task_names[ParentId(i)] \o <<"/">>
                           \o TrimmedTitle(i)
                  ELSE TrimmedTitle(i)

\* C6: when the parent links contain a cycle, normalisation ends with the
\* cycle reported as an error: no names come out for the tasks on the cycle,
\* neither from Anytask._load_tasks nor from _linearize_tasks.
C6_CycleReported ==
    \A i \in TaskIds :
        (Complete /\ NoDangling /\ OnCycle(i)) =>
            /\ built # None =>
                  ~(built.val.ok /\ i \in DOMAIN built.val.val.task_names)
            /\ loaded # None =>
                  ~(loaded.val.ok /\ i \in DOMAIN loaded.val.val.task_names)

\* C7: a task whose parent id is the id of no task is a validation error and
\* the data model is still built: no exception leaves Anytask.__init__ or
\* load_course.
C7_DanglingParentNoCrash ==
    (Complete /\ Acyclic /\ \E i \in TaskIds : Dangling(i)) =>
        /\ built # None => built.val.ok
        /\ loaded # None => loaded.val.ok

\* C8: a task record with an id and a title but no parent key is a root: it
\* is kept under the name trim(title), its students are read, and the model
\* is built without an exception.
C8_MissingParentIsRoot ==
    \A i \in TaskIds :
        (/\ raw[i].parent_task_id = Absent
         /\ \A j \in TaskIds : raw[j].title # Absent
         /\ Acyclic /\ NoDangling) =>
            /\ built # None =>
                  /\ built.val.ok
                  /\ i \in DOMAIN built.val.val.task_names
                  /\ built.val.val.task_names[i] = TrimmedTitle(i)
                  /\ i \in built.val.val.read
            /\ loaded # None =>
                  /\ loaded.val.ok
                  /\ \E k \in 1..Len(loaded.val.val.valid) :
                        /\ loaded.val.val.valid[k].task_id = IntVal(i)
                        /\ loaded.val.val.valid[k].parent_task_id = None

--------------------------------------------------------------------------
(* Student records (C9) *)

\* the student records of the task, as the course data has them
RawRecords == raw[1].students.list

HasAccountAndName(s) == s.username # Absent /\ s.user_name # Absent

\* the svn block is absent (no key, null) or empty (no key inside)
NoVcsBlock(s) == s.svn \in {Absent, None, EmptySvn}

\* what _filter_students keeps: account, name, a score that is not zero and
\* the svn key
ValidatorKeeps(s) ==
    /\ HasAccountAndName(s)
    /\ s.score \notin {Absent, IntVal(0)}
    /\ s.svn # Absent

\* the validated record out of the raw record s: absent or empty block is
\* "no submission", a missing path is '' and a missing revision is None
ValidatedAs(out, s) ==
    /\ out.username = s.username
    /\ out.user_name = s.user_name
    /\ IF NoVcsBlock(s) THEN out.svn = None
       ELSE /\ out.svn # None
            /\ out.svn.svn_path = (IF s.svn.svn_path = Absent
                                   THEN StrVal(<<>>) ELSE s.svn.svn_path)
            /\ out.svn.svn_rev = (IF s.svn.svn_rev = Absent
                                  THEN None ELSE s.svn.svn_rev)

\* the svn block has the three keys that Anytask._parse asks for
FullVcsBlock(s) ==
    /\ ~NoVcsBlock(s)
    /\ s.svn.svn_path # Absent
    /\ s.svn.rb_review_id # Absent
    /\ s.svn.svn_rev # Absent

\* the validated students are the records kept, in order
ValidatedAre(kept) ==
    LET out == loaded.val.val.valid[1].students
    IN  /\ loaded.val.ok
        /\ Len(loaded.val.val.valid) = 1
        /\ Len(out) = Len(kept)
        /\ \A k \in 1..Len(kept) : ValidatedAs(out[k], kept[k])

--------------------------------------------------------------------------
(* The update check (C10) *)

CheckedSolution == checked.sol.val

\* what the disk holds at the destination of the checked solution
CheckedCopy == wcopy[Destination(CheckedSolution, FALSE)]

\* the inspection succeeded and its first entry has a revision
Inspected(info) ==
    /\ info.code = "0"
    /\ info.xml # None
    /\ Len(info.xml.val) > 0
    /\ info.xml.val[1].revision # None

\* C10: _is_updated returns False for a solution with svn info whose
\* directory does not exist; for a solution whose directory exists it
\* returns True exactly when 'svn info' exits with zero, its output parses,
\* there is an entry, the first entry has a revision and that revision
\* equals, as a string, the revision the svn info of the solution holds. A
\* non-zero exit status, unparsable output, no entry or no revision
\* attribute yields False.
C10_IsUpdated ==
    checked # NoCheck =>
        /\ (CheckedCopy = None /\ CheckedSolution.svn # None)
               => checked.result.val = Ok(FALSE)
        /\ CheckedCopy # None =>
              /\ checked.result.val = Ok(TRUE) <=>
                    /\ Inspected(CheckedCopy.val)
                    /\ CheckedSolution.svn # None
                    /\ CheckedCopy.val.xml.val[1].revision.val
                           = CheckedSolution.svn.val.revision
              /\ (CheckedCopy.val.code # "exc"
                  /\ ~Inspected(CheckedCopy.val))
                     => checked.result.val = Ok(FALSE)

\* an existing working copy whose first entry has the expected revision and
\* whose second entry has another one is reported up to date
C10_Witness ==
    /\ checked # NoCheck
    /\ CheckedCopy # None
    /\ Inspected(CheckedCopy.val)
    /\ Len(CheckedCopy.val.xml.val) = 2
    /\ CheckedCopy.val.xml.val[2].revision # CheckedCopy.val.xml.val[1].revision
    /\ CheckedSolution.svn # None
    /\ checked.result.val = Ok(TRUE)

--------------------------------------------------------------------------
(* Repeated fetch (C11) *)

\* the latest invocation checked the solution out with exit status 0
FetchedOk == last.checkout # None /\ last.checkout.val.code = "0"

\* C11: when _sync_solution is invoked for the same solution (hence the
\* same revision) twice in succession and the first invocation checked it
\* out successfully, the second invocation invokes no checkout.
C11_SecondFetchIsNoOp ==
    [][(CalledSync /\ FetchedOk /\ last'.sol = last.sol)
           => last'.checkout = None]_vars

--------------------------------------------------------------------------
(* Failures during a run (C12) *)

\* the invocation this step performs did not fetch its solution: the
\* destination could not be made or the checkout failed
FailedCall ==
    /\ CalledSync
    /\ \/ last'.route \in {"forced", "linked", "direct"}
             /\ last'.checkout = None
       \/ last'.checkout # None /\ last'.checkout.val.code # "0"

\* the loop reached the solutions of the course in their order, one
\* `resolved' entry each, and the rest is still to come
InOrder ==
    /\ Len(resolved) + Len(todo) = Len(rsolutions)
    /\ \A i \in 1..Len(resolved) : resolved[i].sol = rsolutions[i]
    /\ \A i \in 1..Len(todo) : todo[i] = rsolutions[Len(resolved) + i]

\* C12: in a run of synchronize, an invocation whose checkout fails (exit
\* status not 0, or a failed invocation) or whose destination cannot be made
\* skips its solution (no prompt, no re-entry) and returns: the run goes on
\* with the next solution of the data. The loop takes the solutions one at
\* a time in the order of the data, a run that ends has reached them all,
\* and no failed fetch ends a run: a run is left only by an exception of
\* the update check of get_updated.
C12_FailureSkipsOne ==
    /\ [][FailedCall =>
             /\ runinfo'.state = "running"
             /\ pending' = None
             /\ ~last'.asked
             /\ pending = None => todo' = Tail(todo)]_vars
    /\ [](runinfo.state # "idle" =>
             /\ InOrder
             /\ runinfo.state = "done" => todo = <<>>
             /\ runinfo.state = "aborted" =>
                   /\ runinfo.update
                   /\ checked.result # None
                   /\ ~checked.result.val.ok)

\* the checkout of the first solution failed, and the second solution was
\* checked out after it in the same run, which went to its end
C12_Witness ==
    /\ runinfo.state = "done"
    /\ Len(resolved) = 2
    /\ resolved[1].failed
    /\ resolved[1].kind = "direct"
    /\ resolved[2].kind = "forced"
    /\ ~resolved[2].failed
    /\ last.sol = Some(rsolutions[2])
    /\ last.checkout # None
    /\ last.checkout.val.code = "0"

--------------------------------------------------------------------------
(* The stores and the file (C13) *)

Changing == {"add_link", "remove_link", "add_reloc", "remove_reloc"}

\* C13: after every add or remove on the Link or Relocation store, whatever
\* it returned, the store in memory, which the next get reads, equals the
\* store the configuration file holds.
C13_MemoryIsDisk ==
    cfgop.op \in Changing => mem = disk

--------------------------------------------------------------------------
(* The title sequences of _linearize_tasks (C14) *)

\* the trimmed titles from the root of task i down to task i, for a
\* hierarchy without cycles and dangling parents
RECURSIVE TitlePath(_, _)
TitlePath(i, n) ==
    IF n = 0 \/ ~HasParent(i) THEN <<TrimmedTitle(i)>>
    ELSE Append(TitlePath(ParentId(i), n - 1), TrimmedTitle(i))

\* C14: for an acyclic task list in which every parent id is present,
\* whatever the order of the tasks in the list, _linearize_tasks gives each
\* task id the sequence of the trimmed titles from its root down to itself.
C14_TitlePaths ==
    (loaded # None /\ Complete /\ Acyclic /\ NoDangling) =>
        /\ loaded.val.ok
        /\ \A i \in TaskIds :
              loaded.val.val.task_names[i] = TitlePath(i, Len(raw))

\* the same for lists without white space around a title
C14_OrderOnly ==
    (/\ loaded # None /\ Complete /\ Acyclic /\ NoDangling
     /\ \A i \in TaskIds : TrimmedTitle(i) = raw[i].title.str) =>
        /\ loaded.val.ok
        /\ \A i \in TaskIds :
              loaded.val.val.task_names[i] = TitlePath(i, Len(raw))

--------------------------------------------------------------------------
(* The run that follows in update mode (C15) *)

\* the run before checked solution s out, by whatever route
FetchedBefore(s) ==
    \E e \in runinfo.earlier : e.sol = s

\* C15: a solution that a run of synchronize checked out successfully (by
\* its own path, by the linked path or by the forced bulk checkout into the
\* unsorted directory) is not selected by get_updated in the run that
\* follows on the same course data, Link store and disk: the following run
\* finds it up to date and invokes no checkout for it.
C15_UpdateIsIdempotent ==
    (runinfo.no = FollowingRun /\ runinfo.update) =>
        \A i \in 1..Len(resolved) :
            FetchedBefore(resolved[i].sol) => resolved[i].kind = "uptodate"

\* the same for the solutions fetched by their own or the linked path
C15_ExceptForced ==
    (runinfo.no = FollowingRun /\ runinfo.update) =>
        \A i \in 1..Len(resolved) :
            (\E e \in runinfo.earlier :
                /\ e.sol = resolved[i].sol
                /\ e.kind \in {"direct", "linked"})
            => resolved[i].kind = "uptodate"

--------------------------------------------------------------------------
(* _is_updated never fails (C16) *)

\* C16: every call of _is_updated yields a boolean, whatever the solution and
\* whatever the state of the directory it looks at; in particular for a
\* solution without svn info whose directory exists and is reported with a
\* revision.
C16_AlwaysBoolean ==
    checked.result # None => checked.result.val.ok

\* the particular case: no svn info, and a directory reported with a revision
C16_NoSvnInspected ==
    (/\ checked.result # None
     /\ checked.sol.val.svn = None
     /\ CheckedCopy # None
     /\ Inspected(CheckedCopy.val))
    => checked.result.val.ok

--------------------------------------------------------------------------
(* Re-entry of _sync_solution after the prompt (C17) *)

\* the review id of the solution a step is invoked for
CalledReview == last'.sol.val.svn.val.review_id

\* C17: with --force and --ask-link, resolving one solution ends after at
\* most one re-entry of _sync_solution. An invocation re-enters itself only
\* when it prompted and the prompt stored a Link for the review id of the
\* solution, which had none; the re-entered invocation is for the same
\* solution, takes the linked route with the stored path as the source of
\* its checkout, performs no bulk checkout, does not prompt and does not
\* re-enter again.
C17_ReentersOnce ==
    [][CalledSync =>
        /\ pending' # None =>
              /\ args.force /\ args.ask_link
              /\ pending = None
              /\ last'.asked
              /\ last'.route \in {"forced", "already"}
              /\ get_link(links, CalledReview) = None
              /\ get_link(links', CalledReview) # None
        /\ pending # None =>
              /\ last'.sol = pending
              /\ last'.route = "linked"
              /\ last'.checkout # None =>
                    last'.checkout.val.path = get_link(links, CalledReview).val
              /\ bulk' = bulk
              /\ forced' = forced
              /\ ~last'.asked
              /\ ~last'.recheck
              /\ pending' = None]_vars

\* a re-entered invocation checked the solution out from the linked path
\* after the repository of the student had been fetched in bulk
C17_Witness ==
    /\ last.reentered
    /\ last.top \in {"forced", "already"}
    /\ last.route = "linked"
    /\ last.checkout # None
    /\ last.checkout.val.code = "0"

====
